---- MODULE Spec2Model ----
(***************************************************************************)
(* Model of ollama_benchmark/judge/tester.py: the judge Tester.            *)
(* One Tester object, driven by a single thread of control that calls      *)
(* check_config, get_tasks_kwargs, run, run_turns and evaluate_turns.      *)
(* The inference client, the question repository and the transcript file   *)
(* are external: their answers are drawn from small sets.                  *)
(***************************************************************************)
EXTENDS Integers, Sequences, FiniteSets, TLC

\* ---------------------------------------------------------------- bounds
\* largest configured max_turns
MaxTurns == 2

\* largest number of turns a question offers
MaxAvail == 3

\* longest user/assistant part of a transcript given to evaluate_turns
MaxMsgs == 4

\* largest number of transcripts in the loaded document
MaxLoaded == 2

\* number of operations called on the Tester in one behaviour
MaxOps == 2


None == "None"

\* ------------------------------------------------------------- messages
Message(role, content) == [role |-> role, content |-> content, images |-> "absent"]

MessageWithImages(role, content) == [role |-> role, content |-> content, images |-> "b64"]

\* A transcript of the shape the driver produces: an optional system message,
\* then n messages alternating user / assistant (n odd leaves a prompt unanswered).
\* tag tells the transcripts of one document apart.
Transcript(withSystem, n, tag) ==
    (IF withSystem THEN <<Message("system", "system text " \o ToString(tag))>> ELSE <<>>)
    \o [i \in 1..n |-> IF i % 2 = 1
                         THEN Message("user", "prompt " \o ToString(tag) \o "." \o ToString((i + 1) \div 2))
                         ELSE Message("assistant", "answer " \o ToString(tag) \o "." \o ToString(i \div 2))]

\* The transcripts handed to evaluate_turns by a direct caller.
Transcripts == {Transcript(s, n, 0) : s \in BOOLEAN, n \in 0..MaxMsgs}

\* ------------------------------------------------- JSON (json.load/loads)
\* A parsed JSON value: an array (items), a number (num) or null.
JsonArray(items) == [type |-> "array", items |-> items, num |-> 0]

JsonNumber(n) == [type |-> "number", items |-> <<>>, num |-> n]

JsonNull == [type |-> "null", items |-> <<>>, num |-> 0]

\* Python truthiness of a parsed JSON value (bool(x)).
Truthy(v) ==
    CASE v.type = "array" -> Len(v.items) > 0
      [] v.type = "number" -> v.num # 0
      [] OTHER -> FALSE

\* Text of a file: either text json accepts (with the value it parses to) or not.
\* handle is FALSE for None, which has no read().
WellFormed(v) == [handle |-> TRUE, wellformed |-> TRUE, value |-> v]

Malformed == [handle |-> TRUE, wellformed |-> FALSE, value |-> JsonNull]

NoFile == [handle |-> FALSE, wellformed |-> FALSE, value |-> JsonNull]

\* What read() returns once the handle is at end of file: "", which json rejects.
EmptyText == Malformed

\* Documents with k transcripts; the i-th has its own tag.  The first starts
\* with a system message and has an unanswered prompt or two pairs, the others
\* are one pair.
LoadedArrays ==
    {JsonArray([i \in 1..k |-> Transcript(i = 1, IF i = 1 THEN n ELSE 2, i)]) :
        k \in 1..MaxLoaded, n \in {1, 4}}

Documents ==
    {Malformed, WellFormed(JsonNumber(7)), WellFormed(JsonArray(<<>>))}
    \cup {WellFormed(a) : a \in LoadedArrays}

\* ------------------------------------------------------- prompt templates
\* A template is a sequence of pieces of text.  "{question}", "{answer}" and
\* "{options}" are replacement fields; "{{question}}" is the escaped text that
\* str.format prints as {question}; anything else is literal text.
JUDGE_SYSTEM_PROMPT == "You will be given a user_question and system_answer couple."

JUDGE_PROMPT == <<"Question: ", "{question}", "Answer: ", "{answer}">>

\* judge_prompt None or "": both are false in `judge_prompt or JUDGE_PROMPT`.
NoTemplate == <<>>

Templates ==
    { <<"{question}">>,
      <<"{answer}">>,
      <<"{answer}", "{{question}}", "{question}", "{options}">> }

\* `text in template` for text one of the two markers: substring search.
Contains(template, text) ==
    \E i \in 1..Len(template) :
        \/ template[i] = text
        \/ template[i] = "{{question}}" /\ text = "{question}"

\* str() of the 1-tuple of options, as format prints it.
Str(o) == "(" \o o[1] \o ",)"

\* str.format(question=..., answer=..., options=...): the pieces of the result.
Format(template, q, a, o) ==
    [i \in 1..Len(template) |->
        CASE template[i] = "{question}" -> q
          [] template[i] = "{answer}" -> a
          [] template[i] = "{options}" -> Str(o)
          [] template[i] = "{{question}}" -> "{question}"
          [] OTHER -> template[i]]

\* ----------------------------------------------------------- judge output
\* The text a judge reply may hold.
JudgeContents == {"object with the three keys", "object without total_rating", "70", "not json"}

JSONDecodeError(text) == text = "not json"

\* json.loads of a text json accepts.
JsonLoads(text) ==
    CASE text = "object with the three keys" ->
            [type |-> "object", keys |-> {"evaluation", "total_rating", "feedback"}]
      [] text = "object without total_rating" ->
            [type |-> "object", keys |-> {"evaluation", "feedback"}]
      [] OTHER -> [type |-> "number", keys |-> {}]

\* What the subject model may answer.
SubjectReplies == {"reply A", "reply B"}

VARIABLES
    judge_model,        \* self.judge_model
    system_prompt,      \* self.system_prompt: None or the text read() returns
    judge_prompt,       \* self.judge_prompt (after the default is applied)
    max_turns,          \* self.max_turns
    load_messages_file, \* self.load_messages_file: NoFile or the text of the file
    question,           \* self.question
    cache,              \* self._load_messages, when the attribute exists
    filePos,            \* position of the handle load_messages_file
    pc,                 \* where the thread of control is
    op,                 \* the operation called last (or in progress)
    caller,             \* who called run_turns / evaluate_turns: "run" or "test"
    question_id,        \* argument of run / run_turns
    turns,              \* question['turns'] as looked up by run_turns
    images,             \* 'image_urls' in question
    turn_id,            \* loop index of run_turns
    messages,           \* the transcript (run_turns' list, run's variable)
    work,               \* evaluate_turns' working copy
    judgements,         \* evaluate_turns' list of raw responses
    calls,              \* calls received by the client during the operation
    loads,              \* json.load invocations during the operation
    outcome,            \* "running", "returned" or the exception raised
    result,             \* what run returned
    tasks,              \* what get_tasks_kwargs returned
    task,               \* the enumerated task whose keyword arguments run was called with
    nops,               \* operations called so far
    now,                \* time.time(), counted from the start of the operation
    t0,                 \* run's t0
    message_duration,   \* run's message_duration
    judge_duration      \* run's judge_duration

config == <<judge_model, system_prompt, judge_prompt, max_turns, load_messages_file, question>>

locals == <<question_id, turns, images, turn_id, messages, work, judgements>>

timers == <<t0, message_duration, judge_duration>>

vars == <<config, cache, filePos, pc, op, caller, locals, calls, loads, outcome, result, tasks, task, nops,
          now, timers>>

model == "m1"

ollama_options == "general options"

JudgeOptions == "judge options"

\* line 50 ends with a comma: the attribute is a 1-tuple holding the argument.
ollama_judge_options == <<JudgeOptions>>

\* run was not called with the keyword arguments of an enumerated task.
NoTask == -1

NoResult ==
    [messages |-> <<>>, judgements |-> <<>>, message_duration |-> 0, judge_duration |-> 0,
     work_duration |-> 0, returned |-> FALSE]

\* Tester.__init__: judge_prompt None or empty falls back to JUDGE_PROMPT.
Init ==
    /\ judge_model \in {"m1", "m2"}
    /\ system_prompt \in {None, "be brief"}
    /\ \E jp \in Templates \cup {NoTemplate} :
          judge_prompt = IF jp = NoTemplate THEN JUDGE_PROMPT ELSE jp
    /\ max_turns \in 1..MaxTurns
    /\ load_messages_file \in Documents \cup {NoFile}
    /\ question \in {1}
    /\ cache = [set |-> FALSE, value |-> JsonNull]
    /\ filePos = "start"
    /\ pc = "idle"
    /\ op = "none"
    /\ caller = "none"
    /\ question_id = 0
    /\ turns = <<>>
    /\ images = FALSE
    /\ turn_id = 0
    /\ messages = <<>>
    /\ work = <<>>
    /\ judgements = <<>>
    /\ calls = <<>>
    /\ loads = 0
    /\ outcome = "none"
    /\ result = NoResult
    /\ tasks = <<>>
    /\ task = NoTask
    /\ nops = 0
    /\ now = 0
    /\ t0 = 0
    /\ message_duration = 0
    /\ judge_duration = 0

\* ------------------------------------------------------------ operations
Raised(exc, c, pos, n) == [exc |-> exc, value |-> JsonNull, cache |-> c, pos |-> pos, loads |-> n]

\* load_messages without the hasattr test: every access reads the file.
load_messages_uncached(c, pos) ==
    IF ~load_messages_file.handle
      THEN Raised("AttributeError", c, pos, 1)
    ELSE LET text == IF pos = "start" THEN load_messages_file ELSE EmptyText
         IN  IF ~text.wellformed
               THEN Raised("ConfigurationError", c, "eof", 1)
               ELSE [exc |-> "none", value |-> text.value,
                     cache |-> [set |-> TRUE, value |-> text.value],
                     pos |-> "eof", loads |-> 1]

\* The property load_messages (lines 57-65), read with the cache c and the handle at pos.
load_messages(c, pos) ==
    IF c.set
      THEN [exc |-> "none", value |-> c.value, cache |-> c, pos |-> pos, loads |-> 0]
    ELSE IF ~load_messages_file.handle
      THEN Raised("AttributeError", c, pos, 1)
    ELSE LET text == IF pos = "start" THEN load_messages_file ELSE EmptyText
         IN  IF ~text.wellformed
               THEN Raised("ConfigurationError", c, "eof", 1)
               ELSE [exc |-> "none", value |-> text.value,
                     cache |-> [set |-> TRUE, value |-> text.value],
                     pos |-> "eof", loads |-> 1]


\* check_config that looks for {question} only.
check_config_question_only(c, pos) ==
    IF ~Contains(judge_prompt, "{question}")
      THEN Raised("ConfigurationError", c, pos, 0)
    ELSE IF ~load_messages_file.handle
      THEN Raised("none", c, pos, 0)
    ELSE LET r == load_messages(c, pos)
         IN  IF r.exc = "none" /\ ~Truthy(r.value)
               THEN Raised("ConfigurationError", r.cache, r.pos, r.loads)
               ELSE r

\* check_config (lines 67-74): the exception raised ("none" when it returns)
\* and what the call did to the cache and the handle.
check_config(c, pos) ==
    IF ~Contains(judge_prompt, "{question}") \/ ~Contains(judge_prompt, "{answer}")
      THEN Raised("ConfigurationError", c, pos, 0)
    ELSE IF ~load_messages_file.handle
      THEN Raised("none", c, pos, 0)
    ELSE LET r == load_messages(c, pos)
         IN  IF r.exc = "none" /\ ~Truthy(r.value)
               THEN Raised("ConfigurationError", r.cache, r.pos, r.loads)
               ELSE r

\* get_tasks_kwargs (lines 79-91): the list returned, as (task, question_id) records.
get_tasks_kwargs(c, pos) ==
    LET r == load_messages(c, pos)
        r2 == load_messages(r.cache, r.pos)
    IN  IF r.exc # "none" THEN [exc |-> r.exc, tasks |-> <<>>, load |-> r, loads |-> r.loads]
        ELSE IF Truthy(r.value)
          THEN IF r2.value.type = "array"
                 THEN [exc |-> "none", load |-> r2, loads |-> r.loads + r2.loads,
                       tasks |-> [i \in 1..Len(r2.value.items) |->
                                     [task |-> i - 1, question_id |-> 0]]]
                 ELSE [exc |-> "TypeError", tasks |-> <<>>, load |-> r2,
                       loads |-> r.loads + r2.loads]
        ELSE [exc |-> "none", load |-> r, loads |-> r.loads,
              tasks |-> <<[task |-> question, question_id |-> question]>>]

\* Every operation is called when the previous one is over, and starts with a
\* client log and a stack frame of its own.
Call(name) ==
    /\ pc = "idle"
    /\ nops < MaxOps
    /\ nops' = nops + 1
    /\ op' = name
    /\ calls' = <<>>
    /\ result' = NoResult
    /\ turns' = <<>>
    /\ images' = FALSE
    /\ turn_id' = 0
    /\ work' = <<>>
    /\ judgements' = <<>>
    /\ t0' = 0
    /\ message_duration' = 0
    /\ judge_duration' = 0
    /\ UNCHANGED config

\* exc is recorded and the operation goes on.
Raise_and_continue(exc) ==
    /\ outcome' = exc
    /\ UNCHANGED pc

\* The operation ends by raising exc.
Raise(exc) ==
    /\ outcome' = exc
    /\ pc' = "idle"

CheckConfig ==
    /\ Call("check_config")
    /\ LET r == check_config(cache, filePos)
       IN  /\ cache' = r.cache
           /\ filePos' = r.pos
           /\ loads' = r.loads
           /\ now' = r.loads
           /\ outcome' = IF r.exc = "none" THEN "returned" ELSE r.exc
    /\ pc' = "idle"
    /\ caller' = "none"
    /\ tasks' = <<>>
    /\ task' = NoTask
    /\ UNCHANGED <<question_id, messages>>

GetTasksKwargs ==
    /\ Call("get_tasks_kwargs")
    /\ LET r == get_tasks_kwargs(cache, filePos)
       IN  /\ cache' = r.load.cache
           /\ filePos' = r.load.pos
           /\ loads' = r.loads
           /\ now' = r.loads
           /\ outcome' = IF r.exc = "none" THEN "returned" ELSE r.exc
           /\ tasks' = r.tasks
           /\ task' = NoTask
    /\ pc' = "idle"
    /\ caller' = "none"
    /\ UNCHANGED <<question_id, messages>>


\* Subscript that ignores the index and takes the first transcript.
Subscript_first(v, i) ==
    IF v.type # "array" THEN [exc |-> "TypeError", value |-> <<>>]
    ELSE IF i + 1 \in 1..Len(v.items) THEN [exc |-> "none", value |-> v.items[1]]
    ELSE [exc |-> "IndexError", value |-> <<>>]

\* ------------------------------------------------------------------- run
\* messages[question_id] on the loaded value (line 165).
Subscript(v, i) ==
    IF v.type # "array" THEN [exc |-> "TypeError", value |-> <<>>]
    ELSE IF i + 1 \in 1..Len(v.items) THEN [exc |-> "none", value |-> v.items[i + 1]]
    ELSE [exc |-> "IndexError", value |-> <<>>]

\* run, lines 163-167: which transcript source is used.
run_source(c, pos, qid) ==
    LET r == load_messages(c, pos)
        r2 == load_messages(r.cache, r.pos)
        m == Subscript(r2.value, qid)
    IN  IF r.exc # "none"
          THEN [exc |-> r.exc, source |-> "none", messages |-> <<>>, load |-> r, loads |-> r.loads]
        ELSE IF Truthy(r.value)
          THEN [exc |-> m.exc, source |-> "loaded", messages |-> m.value, load |-> r2,
                loads |-> r.loads + r2.loads]
        ELSE [exc |-> "none", source |-> "driver", messages |-> <<>>, load |-> r,
              loads |-> r.loads]

RunWith(qid) ==
    /\ Call("run")
    /\ question_id' = qid
    /\ tasks' = <<>>
    /\ caller' = "run"
    /\ LET s == run_source(cache, filePos, qid)
       IN  /\ cache' = s.load.cache
           /\ filePos' = s.load.pos
           /\ loads' = s.loads
           /\ now' = s.loads
           /\ messages' = s.messages
           /\ IF s.exc # "none" THEN Raise(s.exc)
              ELSE /\ outcome' = "running"
                   /\ pc' = IF s.source = "loaded" THEN "run_168" ELSE "run_turns"

\* run called with an identifier of the caller's choice.
Run(qid) ==
    /\ RunWith(qid)
    /\ task' = NoTask

\* run(**kwargs) for the i-th task (task, kwargs) that get_tasks_kwargs returned.
RunTask(i) ==
    /\ op = "get_tasks_kwargs"
    /\ outcome = "returned"
    /\ i \in 1..Len(tasks)
    /\ RunWith(tasks[i].question_id)
    /\ task' = tasks[i].task

\* run_turns called on its own.
RunTurnsCall(qid) ==
    /\ Call("run_turns")
    /\ question_id' = qid
    /\ tasks' = <<>>
    /\ task' = NoTask
    /\ caller' = "test"
    /\ messages' = <<>>
    /\ loads' = 0
    /\ now' = 0
    /\ outcome' = "running"
    /\ pc' = "run_turns"
    /\ UNCHANGED <<cache, filePos>>

\* question['turns'] for a question offering a turns.
QuestionTurns(a) == [i \in 1..a |-> "turn " \o ToString(i)]

\* run_turns, lines 94-102: look the question up, start the transcript.
RunTurnsBegin ==
    /\ pc = "run_turns"
    /\ \/ \E a \in 0..MaxAvail, img \in BOOLEAN :
             /\ turns' = QuestionTurns(a)
             /\ images' = img
             /\ messages' = IF system_prompt # None
                              THEN <<Message("system", system_prompt)>>
                              ELSE <<>>
             /\ turn_id' = 0
             /\ pc' = "run_turns_loop"
             /\ UNCHANGED outcome
       \/ /\ Raise("LookupError")
          /\ UNCHANGED <<turns, images, messages, turn_id>>
    /\ now' = now + 1
    /\ UNCHANGED <<config, cache, filePos, op, caller, question_id, work, judgements,
                   calls, loads, result, tasks, task, nops, timers>>


\* Slice that forgets the cap.
Slice_uncapped(s, m) == s

\* question['turns'][:self.max_turns]
Slice(s, m) == SubSeq(s, 1, IF m < Len(s) THEN m ELSE Len(s))

\* ChatCall that gives the judge its own options.
ChatCall_judge_options(site, mdl, msgs) ==
    [kind |-> "chat", site |-> site, model |-> mdl, messages |-> msgs,
     options |-> IF site = "judge" THEN JudgeOptions ELSE ollama_options]

\* ChatCall that sends only the newest message.
ChatCall_last_only(site, mdl, msgs) ==
    [kind |-> "chat", site |-> site, model |-> mdl, messages |-> <<msgs[Len(msgs)]>>,
     options |-> ollama_options]

ChatCall(site, mdl, msgs) ==
    [kind |-> "chat", site |-> site, model |-> mdl, messages |-> msgs,
     options |-> ollama_options]

UnloadCall(mdl) ==
    [kind |-> "unload", site |-> "run", model |-> mdl, messages |-> <<>>,
     options |-> "none"]

\* The user message of one turn (lines 107-112).
UserMessage(prompt) ==
    IF images THEN MessageWithImages("user", prompt) ELSE Message("user", prompt)

\* run_turns, lines 104-124: one iteration of the loop.
RunTurnsChat ==
    /\ pc = "run_turns_loop"
    /\ turn_id < Len(Slice(turns, max_turns))
    /\ LET sent == Append(messages, UserMessage(Slice(turns, max_turns)[turn_id + 1]))
       IN  /\ calls' = Append(calls, ChatCall("subject", model, sent))
           /\ \/ \E reply \in SubjectReplies :
                    /\ messages' = Append(sent, Message("assistant", reply))
                    /\ turn_id' = turn_id + 1
                    /\ UNCHANGED <<pc, outcome>>
              \/ /\ messages' = sent
                 /\ Raise("ChatError")
                 /\ UNCHANGED turn_id
    /\ now' = now + 1
    /\ UNCHANGED <<config, cache, filePos, op, caller, question_id, turns, images, work,
                   judgements, loads, result, tasks, task, nops, timers>>

\* run_turns, line 125.
RunTurnsReturn ==
    /\ pc = "run_turns_loop"
    /\ turn_id = Len(Slice(turns, max_turns))
    /\ IF caller = "run"
         THEN pc' = "run_168" /\ UNCHANGED outcome
         ELSE pc' = "idle" /\ outcome' = "returned"
    /\ UNCHANGED <<config, cache, filePos, op, caller, locals, calls, loads, result,
                   tasks, task, nops, now, timers>>

\* run, line 170: is the subject model to be unloaded?
unload_wanted(loaded) == (~Truthy(loaded)) /\ model = judge_model

\* run, lines 168-173: the first timer is read, the model unloaded, the second
\* timer started.  Every call to a collaborator takes one unit of time.
RunUnload ==
    /\ pc = "run_168"
    /\ message_duration' = now - t0
    /\ LET r == load_messages(cache, filePos)
       IN  /\ cache' = r.cache
           /\ filePos' = r.pos
           /\ loads' = loads + r.loads
           /\ IF r.exc # "none"
                THEN Raise(r.exc) /\ now' = now + r.loads /\ UNCHANGED calls
              ELSE IF unload_wanted(r.value)
                THEN /\ calls' = Append(calls, UnloadCall(model))
                     /\ now' = now + r.loads + 1
                     /\ \/ pc' = "evaluate_turns" /\ UNCHANGED outcome
                        \/ Raise("UnloadError")
                ELSE /\ pc' = "evaluate_turns"
                     /\ now' = now + r.loads
                     /\ UNCHANGED <<outcome, calls>>
    /\ t0' = now'
    /\ UNCHANGED <<config, op, caller, locals, result, tasks, task, nops, judge_duration>>

\* -------------------------------------------------------- evaluate_turns
\* evaluate_turns called on its own, with a transcript of the caller's.
EvaluateTurnsCall(msgs) ==
    /\ Call("evaluate_turns")
    /\ tasks' = <<>>
    /\ task' = NoTask
    /\ caller' = "test"
    /\ messages' = msgs
    /\ loads' = 0
    /\ now' = 0
    /\ outcome' = "running"
    /\ pc' = "evaluate_turns"
    /\ UNCHANGED <<cache, filePos, question_id>>


\* WorkingCopy that keeps a leading system message.
WorkingCopy_whole(msgs) == msgs

\* WorkingCopy that also drops a trailing message without a partner.
WorkingCopy_truncated(msgs) ==
    LET w == IF msgs # <<>> /\ msgs[1].role = "system" THEN Tail(msgs) ELSE msgs
    IN  SubSeq(w, 1, Len(w) - (Len(w) % 2))

\* lines 129-131: the working copy, without a leading system message.
WorkingCopy(msgs) ==
    IF msgs # <<>> /\ msgs[1].role = "system" THEN Tail(msgs) ELSE msgs

\* The caller's list when the pops are made on that list itself.
CallerList_aliased(msgs, w) == w

\* line 129: messages[::] is a new list, so the pops of lines 131, 134 and 135
\* leave the list of the caller (msgs) as it is, whatever is left (w) of the copy.
CallerList(msgs, w) == msgs

\* evaluate_turns, lines 128-131.
EvaluateTurnsBegin ==
    /\ pc = "evaluate_turns"
    /\ judgements' = <<>>
    /\ work' = WorkingCopy(messages)
    /\ messages' = CallerList(messages, work')
    /\ pc' = "evaluate_loop"
    /\ UNCHANGED <<config, cache, filePos, op, caller, question_id, turns, images, turn_id,
                   calls, loads, outcome, result, tasks, task, nops, now, timers>>


\* JudgeMessages that continues the conversation held for the pair before.
JudgeMessages_accumulated(prompt, answer) ==
    LET earlier == IF judgements = <<>>
                     THEN <<Message("system", JUDGE_SYSTEM_PROMPT)>>
                     ELSE judgements[Len(judgements)].request
    IN  Append(earlier, Message("user", Format(judge_prompt, prompt.content, answer.content,
                                               ollama_judge_options)))

\* JudgeMessages with question and answer exchanged.
JudgeMessages_swapped(prompt, answer) ==
    << Message("system", JUDGE_SYSTEM_PROMPT),
       Message("user", Format(judge_prompt, answer.content, prompt.content,
                              ollama_judge_options)) >>

\* lines 136-147: the conversation sent to the judge for one pair.
JudgeMessages(prompt, answer) ==
    << Message("system", JUDGE_SYSTEM_PROMPT),
       Message("user", Format(judge_prompt, prompt.content, answer.content,
                              ollama_judge_options)) >>

\* evaluate_turns, lines 133-156: one iteration of the loop.
EvaluateTurnsJudge ==
    /\ pc = "evaluate_loop"
    /\ work # <<>>
    /\ IF Len(work) = 1
         THEN \* line 135 pops from the empty list
              /\ work' = <<>>
              /\ Raise("IndexError")
              /\ UNCHANGED <<calls, judgements, now>>
         ELSE LET judge_messages == JudgeMessages(work[1], work[2])
              IN  /\ work' = Tail(Tail(work))
                  /\ calls' = Append(calls, ChatCall("judge", judge_model, judge_messages))
                  /\ now' = now + 1
                  /\ \/ \E content \in JudgeContents :
                           /\ judgements' = Append(judgements,
                                  [content |-> content, request |-> judge_messages])
                           /\ UNCHANGED <<pc, outcome>>
                     \/ /\ Raise("ChatError")
                        /\ UNCHANGED judgements
    /\ messages' = CallerList(messages, work')
    /\ UNCHANGED <<config, cache, filePos, op, caller, question_id, turns, images, turn_id,
                   loads, result, tasks, task, nops, timers>>

\* evaluate_turns, line 157, and in run the second timer read at line 175.
EvaluateTurnsReturn ==
    /\ pc = "evaluate_loop"
    /\ work = <<>>
    /\ IF caller = "run"
         THEN pc' = "run_177" /\ judge_duration' = now - t0 /\ UNCHANGED outcome
         ELSE pc' = "idle" /\ outcome' = "returned" /\ UNCHANGED judge_duration
    /\ UNCHANGED <<config, cache, filePos, op, caller, locals, calls, loads, result,
                   tasks, task, nops, now, t0, message_duration>>


\* parse_judgements that drops the responses json rejects.
parse_judgements_lenient(js) ==
    LET good == SelectSeq(js, LAMBDA j : ~JSONDecodeError(j.content))
    IN  [exc |-> "none", value |-> [i \in 1..Len(good) |-> JsonLoads(good[i].content)]]

\* _parse_judgement (lines 159-160) over the responses (lines 177-180).
parse_judgements(js) ==
    IF \E i \in 1..Len(js) : JSONDecodeError(js[i].content)
      THEN [exc |-> "JSONDecodeError", value |-> <<>>]
      ELSE [exc |-> "none", value |-> [i \in 1..Len(js) |-> JsonLoads(js[i].content)]]

\* Result with work_duration measured from the start of run.
Result_elapsed(msgs, js, md, jd) ==
    [messages |-> msgs, judgements |-> js, message_duration |-> md, judge_duration |-> jd,
     work_duration |-> now, returned |-> TRUE]

\* The dictionary of lines 181-187.
Result(msgs, js, md, jd) ==
    [messages |-> msgs, judgements |-> js, message_duration |-> md, judge_duration |-> jd,
     work_duration |-> md + jd, returned |-> TRUE]

\* run, lines 177-188.
RunFinish ==
    /\ pc = "run_177"
    /\ LET p == parse_judgements(judgements)
       IN  IF p.exc # "none"
             THEN Raise(p.exc) /\ UNCHANGED result
             ELSE /\ result' = Result(messages, p.value, message_duration, judge_duration)
                  /\ outcome' = "returned"
                  /\ pc' = "idle"
    /\ UNCHANGED <<config, cache, filePos, op, caller, locals, calls, loads, tasks, task, nops,
                   now, timers>>

\* The identifiers run is called with: the configured question, or, when the
\* source holds transcripts, their indexes and the first index past them.
RunArguments ==
    IF load_messages_file.wellformed /\ Len(load_messages_file.value.items) > 0
      THEN 0..Len(load_messages_file.value.items)
      ELSE {question}

Next ==
    \/ CheckConfig
    \/ GetTasksKwargs
    \/ \E qid \in RunArguments : Run(qid)
    \/ \E i \in 1..MaxLoaded + 1 : RunTask(i)
    \/ RunTurnsCall(question)
    \/ RunTurnsBegin
    \/ RunTurnsChat
    \/ RunTurnsReturn
    \/ RunUnload
    \/ \E msgs \in Transcripts : EvaluateTurnsCall(msgs)
    \/ EvaluateTurnsBegin
    \/ EvaluateTurnsJudge
    \/ EvaluateTurnsReturn
    \/ RunFinish

Spec == Init /\ [][Next]_vars

\* ================================================================ claims
JudgeCalls == SelectSeq(calls, LAMBDA c : c.site = "judge")

SubjectCalls == SelectSeq(calls, LAMBDA c : c.site = "subject")

UnloadCalls == SelectSeq(calls, LAMBDA c : c.kind = "unload")

\* evaluate_turns has just returned (to run or to its direct caller).
EvaluateTurnsReturned ==
    \/ op = "run" /\ pc = "run_177"
    \/ op = "evaluate_turns" /\ pc = "idle" /\ outcome = "returned"

\* 1 when the transcript starts with a system message, else 0.
SystemOffset == IF messages # <<>> /\ messages[1].role = "system" THEN 1 ELSE 0

NonSystem == {i \in 1..Len(messages) : messages[i].role # "system"}

\* C1: when evaluate_turns returns for a transcript that is n (prompt, answer)
\* pairs after an optional leading system message, the judge was called exactly
\* n times and n responses are returned, the i-th being the reply to the prompt
\* rendered from the i-th pair, so there are half as many as non-system messages.
C1_OneJudgementPerPair ==
    (EvaluateTurnsReturned /\ (Len(messages) - SystemOffset) % 2 = 0) =>
        LET n == (Len(messages) - SystemOffset) \div 2
        IN  /\ Len(JudgeCalls) = n
            /\ Len(judgements) = n
            /\ 2 * Len(judgements) = Cardinality(NonSystem)
            /\ \A i \in 1..n :
                  LET rendered == Format(judge_prompt,
                                         messages[SystemOffset + 2 * i - 1].content,
                                         messages[SystemOffset + 2 * i].content,
                                         ollama_judge_options)
                  IN  /\ JudgeCalls[i].messages[2].content = rendered
                      /\ judgements[i].request = JudgeCalls[i].messages

C1_Witness ==
    /\ EvaluateTurnsReturned
    /\ SystemOffset = 1
    /\ Len(judgements) = 2
    /\ Len(messages) = 5

\* A call to a collaborator failed during the operation.
ExternalFailure == outcome \in {"ChatError", "UnloadError", "LookupError"}

\* The value the code tests at lines 164 and 170: a transcript document is loaded.
TranscriptLoaded == cache.set /\ Truthy(cache.value)

\* Position in the client log of the only unload call (0 when there is none).
UnloadAt == IF \E i \in 1..Len(calls) : calls[i].kind = "unload"
              THEN CHOOSE i \in 1..Len(calls) : calls[i].kind = "unload"
              ELSE 0

\* C2: a run in which no collaborator fails and the transcript source is not
\* broken issues the unload signal exactly once, after every subject-model call
\* and before every judge-model call, when subject and judge model are equal
\* and no transcript was loaded; otherwise it never issues it.
C2_UnloadOnceBetweenPhases ==
    (op = "run" /\ pc = "idle" /\ ~ExternalFailure /\ outcome # "ConfigurationError") =>
        IF model = judge_model /\ ~TranscriptLoaded
          THEN /\ Len(UnloadCalls) = 1
               /\ \A i \in 1..Len(calls) :
                     /\ calls[i].site = "subject" => i < UnloadAt
                     /\ calls[i].site = "judge" => i > UnloadAt
          ELSE Len(UnloadCalls) = 0

\* C3: run on a Tester with no transcript source never tries to read one, ends
\* only by returning or by a failure of a collaborator or of judgement parsing,
\* and returns the transcript the conversation driver produced.
C3_NoSourceUsesDriver ==
    (op = "run" /\ ~load_messages_file.handle) =>
        /\ loads = 0
        /\ pc = "idle" => (outcome \in {"returned", "JSONDecodeError"} \/ ExternalFailure)
        /\ result.returned =>
              /\ result.messages = messages
              /\ Len(SubjectCalls) * 2 = Cardinality(NonSystem)

\* The configured source holds at least one transcript and question_id is the
\* index of one of them.
ReplayOf(i) ==
    /\ load_messages_file.handle
    /\ load_messages_file.wellformed
    /\ load_messages_file.value.type = "array"
    /\ i + 1 \in 1..Len(load_messages_file.value.items)

\* C4: in run(i) on a Tester whose source yields k >= 1 transcripts, 0 <= i < k,
\* the conversation driver is never entered: no question is looked up and the
\* subject model is never called; a Result that is returned holds the i-th
\* loaded transcript unchanged.
C4_ReplayUsesLoadedTranscript ==
    (op = "run" /\ ReplayOf(question_id)) =>
        /\ pc \notin {"run_turns", "run_turns_loop"}
        /\ outcome # "LookupError"
        /\ turns = <<>>
        /\ \A i \in 1..Len(calls) : calls[i].site = "judge"
        /\ result.returned =>
              result.messages = load_messages_file.value.items[question_id + 1]

C4_Witness ==
    /\ op = "run"
    /\ ReplayOf(question_id)
    /\ question_id = 1
    /\ result.returned
    /\ result.messages = Transcript(FALSE, 2, 2)
    /\ result.messages # load_messages_file.value.items[1]
    /\ Len(calls) = 1

\* run_turns has just returned (to run or to its direct caller).
RunTurnsReturned ==
    \/ op = "run" /\ pc = "run_168" /\ ~TranscriptLoaded
    \/ op = "run_turns" /\ pc = "idle" /\ outcome = "returned"

Min(a, b) == IF a < b THEN a ELSE b

\* C5: when run_turns returns for a question with a turns and max_turns = m, the
\* subject model was called min(m, a) times and the transcript is min(m, a)
\* user/assistant pairs, after one system message exactly when one is configured.
C5_TurnsCappedByMaxTurns ==
    RunTurnsReturned =>
        LET n == Min(max_turns, Len(turns))
            s == IF system_prompt # None THEN 1 ELSE 0
        IN  /\ Len(SubjectCalls) = n
            /\ Len(calls) = n
            /\ Len(messages) = 2 * n + s
            /\ s = 1 => messages[1] = Message("system", system_prompt)
            /\ \A i \in 1..n :
                  /\ messages[s + 2 * i - 1].role = "user"
                  /\ messages[s + 2 * i - 1].content = turns[i]
                  /\ messages[s + 2 * i].role = "assistant"

C5_Witness ==
    /\ RunTurnsReturned
    /\ max_turns = 2
    /\ Len(turns) = 3
    /\ system_prompt # None
    /\ Len(messages) = 5

\* C6: the content of a leading system message is in no piece of any prompt
\* rendered for the judge and in no message sent to the judge.
C6_SystemMessageNeverJudged ==
    (messages # <<>> /\ messages[1].role = "system") =>
        \A i \in 1..Len(JudgeCalls) :
            LET sent == JudgeCalls[i].messages
            IN  /\ Len(sent) = 2
                /\ sent[1].content # messages[1].content
                /\ \A k \in 1..Len(sent[2].content) :
                      sent[2].content[k] # messages[1].content

C6_Witness ==
    /\ messages # <<>>
    /\ messages[1].role = "system"
    /\ Len(JudgeCalls) = 2
    /\ Contains(judge_prompt, "{question}")

UnparsableAt == {i \in 1..Len(judgements) : JSONDecodeError(judgements[i].content)}

\* C7: a run in which the content of some judge response does not parse ends
\* by raising and returns no Result; a Result that is returned holds one
\* judgement per pair, each the parse of the response for that pair.
C7_ParseFailureAbortsRun ==
    op = "run" =>
        /\ (UnparsableAt # {} /\ pc = "idle") => (outcome # "returned" /\ ~result.returned)
        /\ (UnparsableAt # {} /\ pc = "idle" /\ ~ExternalFailure) => outcome = "JSONDecodeError"
        /\ result.returned =>
              /\ 2 * Len(result.judgements) = Len(messages) - SystemOffset
              /\ \A i \in 1..Len(result.judgements) :
                    result.judgements[i] = JsonLoads(judgements[i].content)

C7_Witness ==
    /\ op = "run"
    /\ pc = "idle"
    /\ outcome = "JSONDecodeError"
    /\ Len(judgements) = 2
    /\ UnparsableAt = {2}

JudgementKeys == {"evaluation", "total_rating", "feedback"}

\* C8: run returns a Result only when every judge response is a JSON object
\* with the keys evaluation, total_rating and feedback.
C8_OnlyJudgementObjectsAccepted ==
    (op = "run" /\ result.returned) =>
        \A i \in 1..Len(judgements) :
            /\ ~JSONDecodeError(judgements[i].content)
            /\ JsonLoads(judgements[i].content).type = "object"
            /\ JudgementKeys \subseteq JsonLoads(judgements[i].content).keys

MarkerMissing == ~Contains(judge_prompt, "{question}") \/ ~Contains(judge_prompt, "{answer}")

\* C9: a call of check_config on a Tester whose judge prompt lacks {question}
\* or {answer} raises ConfigurationError without any call to the client and
\* without touching the transcript source or its cache.
C9_MissingMarkerRaisesFirst ==
    [][(op' = "check_config" /\ nops' = nops + 1 /\ MarkerMissing) =>
          /\ outcome' = "ConfigurationError"
          /\ calls' = <<>>
          /\ loads' = 0
          /\ cache' = cache
          /\ filePos' = filePos]_vars

C9_Witness ==
    /\ op = "check_config"
    /\ outcome = "ConfigurationError"
    /\ ~Contains(judge_prompt, "{answer}")
    /\ load_messages_file.handle
    /\ load_messages_file.wellformed
    /\ ~cache.set
    /\ filePos = "start"

\* The number of transcripts the source yields (0 when it yields none).
TranscriptsIn(doc) ==
    IF doc.wellformed /\ doc.value.type = "array" THEN Len(doc.value.items) ELSE 0

\* C10: with a source configured and a valid judge prompt, check_config returns
\* only if the source parses and yields at least one transcript, and raises
\* ConfigurationError if the document is malformed or yields none.
C10_SourceMustYieldTranscript ==
    (op = "check_config" /\ load_messages_file.handle /\ ~MarkerMissing) =>
        /\ outcome = "returned" => TranscriptsIn(load_messages_file) >= 1
        /\ TranscriptsIn(load_messages_file) = 0 => outcome = "ConfigurationError"

\* C11: once the source has been loaded, no step of check_config,
\* get_tasks_kwargs or run reads it again or changes the cached value, which
\* stays the value the document parsed to.
C11_LoadedOnceThenCached ==
    [][cache.set =>
          /\ cache' = cache
          /\ filePos' = filePos
          /\ cache.value = load_messages_file.value
          /\ loads' = IF nops' = nops THEN loads ELSE 0]_vars

C11_Witness ==
    /\ nops = 2
    /\ op = "run"
    /\ result.returned
    /\ cache.set
    /\ Len(cache.value.items) = 2
    /\ loads = 0

\* C12: get_tasks_kwargs on a Tester without loaded transcripts returns the
\* single task of the configured question, tagged with that question; with k
\* transcripts loaded it returns the tasks 0..k-1 in order, each tagged 0.
C12_TasksEnumerated ==
    (op = "get_tasks_kwargs" /\ (load_messages_file.handle => load_messages_file.wellformed)
        /\ load_messages_file.value.type # "number") =>
        /\ outcome = "returned"
        /\ IF TranscriptsIn(load_messages_file) = 0
             THEN tasks = <<[task |-> question, question_id |-> question]>>
             ELSE /\ Len(tasks) = TranscriptsIn(load_messages_file)
                  /\ \A i \in 1..Len(tasks) :
                        tasks[i] = [task |-> i - 1, question_id |-> 0]

\* C13: every Result has work_duration = message_duration + judge_duration;
\* message_duration is the time of the calls made to obtain the transcript,
\* judge_duration the time of the judge calls, and the unload in between
\* belongs to neither.
C13_WorkDurationIsSum ==
    (op = "run" /\ result.returned) =>
        /\ result.work_duration = result.message_duration + result.judge_duration
        /\ result.judge_duration = Len(JudgeCalls)
        /\ result.message_duration = loads + Len(SubjectCalls)
                                       + (IF TranscriptLoaded THEN 0 ELSE 1)
        /\ result.work_duration + Len(UnloadCalls) = now

C13_Witness ==
    /\ op = "run"
    /\ result.returned
    /\ Len(UnloadCalls) = 1
    /\ result.judge_duration = 2
    /\ result.message_duration >= 3
    /\ result.work_duration < now

\* C14: when run is called with the keyword arguments of the task that
\* get_tasks_kwargs enumerated for loaded transcript i, the transcript it
\* evaluates is the loaded transcript at position i.
C14_TaskEvaluatesOwnTranscript ==
    (op = "run" /\ task # NoTask /\ TranscriptLoaded /\ result.returned) =>
        result.messages = cache.value.items[task + 1]

\* C15: when a subject-model or judge-model call fails, the operation ends
\* there: the failed call is the last client call of the operation (it is not
\* issued again, and no chat or unload follows it) and no Result is returned.
C15_ChatFailureAborts ==
    outcome = "ChatError" =>
        /\ pc = "idle"
        /\ ~result.returned
        /\ calls # <<>>
        /\ LET failed == calls[Len(calls)]
           IN  /\ failed.kind = "chat"
               /\ IF failed.site = "subject"
                    THEN /\ Len(SubjectCalls) = turn_id + 1
                         /\ failed.messages = messages
                         /\ Len(JudgeCalls) = 0
                         /\ Len(UnloadCalls) = 0
                    ELSE /\ Len(JudgeCalls) = Len(judgements) + 1
                         /\ Len(SubjectCalls) = turn_id

C15_Witness ==
    /\ op = "run"
    /\ outcome = "ChatError"
    /\ Len(SubjectCalls) = 2
    /\ Len(UnloadCalls) = 1
    /\ Len(JudgeCalls) = 2
    /\ Len(judgements) = 1

\* C16: for a transcript with 2k+1 messages after the optional system message,
\* evaluate_turns makes the judge calls of the k complete pairs and then
\* raises the index error on the message left over, returning nothing.
C16_OddTranscriptRaisesAfterPairs ==
    (/\ op \in {"evaluate_turns", "run"}
     /\ pc = "idle"
     /\ ~ExternalFailure
     /\ (Len(messages) - SystemOffset) % 2 = 1) =>
        /\ outcome = "IndexError"
        /\ Len(JudgeCalls) = (Len(messages) - SystemOffset) \div 2
        /\ Len(judgements) = Len(JudgeCalls)
        /\ ~result.returned

C16_Witness ==
    /\ op = "evaluate_turns"
    /\ outcome = "IndexError"
    /\ SystemOffset = 1
    /\ Len(messages) = 4
    /\ Len(JudgeCalls) = 1
    /\ Len(judgements) = 1

\* The Conversation Driver produced (or is producing) the transcript.
DriverTranscript == op = "run_turns" \/ (op = "run" /\ ~TranscriptLoaded)

\* The role of the message at position i of a driver transcript.
RoleAt(i) ==
    IF i = 1 /\ SystemOffset = 1 THEN "system"
    ELSE IF (i - SystemOffset) % 2 = 1 THEN "user" ELSE "assistant"

\* C17: in run_turns the transcript is an optional system message followed by
\* alternating user and assistant messages; subject call k (from 0) was passed
\* the prefix of the transcript that ends with the k-th user prompt, so the
\* transcript only grew by appending; the returned transcript has an even
\* number of non-system messages and its evaluation never raises the index
\* error.
C17_DriverTranscriptAlternates ==
    DriverTranscript =>
        /\ \A i \in 1..Len(messages) : messages[i].role = RoleAt(i)
        /\ \A k \in 1..Len(SubjectCalls) :
              /\ SystemOffset + 2 * k - 1 <= Len(messages)
              /\ SubjectCalls[k].messages = SubSeq(messages, 1, SystemOffset + 2 * k - 1)
        /\ RunTurnsReturned => (Len(messages) - SystemOffset) % 2 = 0
        /\ outcome # "IndexError"

C17_Witness ==
    /\ RunTurnsReturned
    /\ op = "run"
    /\ SystemOffset = 1
    /\ Len(SubjectCalls) = 2
    /\ Len(messages) = 5

\* C18: every judge call is passed the general inference options, never the
\* judge options; the judge options reach the judge only where the prompt
\* template uses its variable "options".
C18_JudgeCalledWithGeneralOptions ==
    \A i \in 1..Len(JudgeCalls) :
        LET call == JudgeCalls[i]
            rendered == call.messages[2].content
        IN  /\ call.options = ollama_options
            /\ call.options # JudgeOptions
            /\ Len(rendered) = Len(judge_prompt)
            /\ \A j \in 1..Len(judge_prompt) :
                  (judge_prompt[j] = "{options}") <=> (rendered[j] = Str(ollama_judge_options))

C18_Witness ==
    /\ op = "run"
    /\ result.returned
    /\ Contains(judge_prompt, "{options}")
    /\ Len(JudgeCalls) = 2
    /\ JudgeCalls[2].options = ollama_options

\* C19: every judge call receives exactly two messages, the system message
\* with the judge system prompt and the user message rendered for the pair
\* the call is about; nothing of an earlier pair is carried along.
C19_JudgeConversationIsFresh ==
    \A i \in 1..Len(JudgeCalls) :
        LET sent == JudgeCalls[i].messages
            at == SystemOffset + 2 * i
        IN  /\ Len(sent) = 2
            /\ sent[1] = Message("system", JUDGE_SYSTEM_PROMPT)
            /\ sent[2].role = "user"
            /\ at <= Len(messages)
            /\ sent[2].content = Format(judge_prompt, messages[at - 1].content,
                                        messages[at].content, ollama_judge_options)

C19_Witness ==
    /\ op = "evaluate_turns"
    /\ outcome = "returned"
    /\ Len(JudgeCalls) = 2
    /\ JudgeCalls[1].messages # JudgeCalls[2].messages
    /\ Len(JudgeCalls[2].messages) = 2

\* C20: no step of evaluate_turns changes the transcript it was given or the
\* cached document, and the Result of run holds that transcript: in replay
\* the loaded transcript as cached, system message included.
C20_TranscriptLeftUnchanged ==
    [][/\ pc \in {"evaluate_turns", "evaluate_loop"} =>
             /\ messages' = messages
             /\ cache' = cache
       /\ (pc = "run_177" /\ result'.returned) =>
             /\ result'.messages = messages
             /\ messages' = messages
             /\ cache' = cache
             /\ TranscriptLoaded => result'.messages = cache.value.items[question_id + 1]]_vars

C20_Witness ==
    /\ op = "run"
    /\ result.returned
    /\ TranscriptLoaded
    /\ work = <<>>
    /\ Len(JudgeCalls) = 2
    /\ Len(result.messages) = 5
    /\ result.messages[1].role = "system"
    /\ result.messages = cache.value.items[question_id + 1]

====
